---- MODULE Spec2Model ----
(***************************************************************************)
(* terrain-ar: the placement lifecycle state machine (terrain-tap-place,   *)
(* src/unnamed/part_006), the GestureHandler it attaches (v5,              *)
(* src/unnamed/part_002), the black transition cover, the XR8 restart and  *)
(* the collaborators that call into them (BillboardManager tap detection,  *)
(* Viewer360 close callback, ArUiOverlay reset button).                    *)
(*                                                                         *)
(* Units.  Screen coordinates are held in tenths of a pixel, so the 0.3 px *)
(* pan threshold is 3 and MIN_SPREAD (10 px) is 100.  Positions are held   *)
(* in units of 0.0005 m (one tenth of a pixel times the 0.005 m/px         *)
(* sensitivities), so a pan adds the screen delta itself.  Scales are held *)
(* in units of 1e-5, so HIDDEN_SCALE (0.00001) is 1; a scale the code      *)
(* computes is rounded down to that unit.                                  *)
(*                                                                         *)
(* Scheduling.  A handler runs to its first pending await in one step; a   *)
(* promise that is already resolved continues in the same step.  Timers    *)
(* and animation frames fire in any order (a delay is a lower bound).      *)
(* trigger() takes the transition at once when the current ecs state       *)
(* registered it with onTrigger, and is dropped otherwise.                 *)
(***************************************************************************)
EXTENDS Integers, Sequences, FiniteSets, TLC

\* ------------------------------------------------------------ bounds
MaxHandlers == 2    \* GestureHandler instances that are reachable at once
MaxInFlight == 2    \* startRescan calls pending at once
MaxTouches  == 2    \* fingers of a pinch
MaxFingers  == 3    \* fingers the environment puts on the screen at once
MaxQueue    == 1    \* touch events dispatched by the browser but not yet delivered
MaxPos      == 400  \* the environment keeps the placed target within this distance of the origin on each axis (0.2 m)
MaxInit     == 1    \* boards.init() calls pending at once
MaxGone     == 1    \* covers taken down and not yet removed from the document

\* ------------------------------------------------------------ program constants
SCALE_MIN      == 2000         \* 0.02
SCALE_MAX      == 500000       \* 5.0
MIN_SPREAD     == 100          \* 10 px
PAN_THRESHOLD  == 3            \* 0.3 px
DEPTH_SENSITIVITY      == 1    \* 0.005 m per px: one position unit per tenth of a pixel
HORIZONTAL_SENSITIVITY == 1    \* 0.005 m per px
INITIAL_SCALE  == 28000        \* 0.28
HIDDEN_SCALE   == 1            \* 0.00001
SETTLE_FRAMES  == 20
CAMERA_OFFSET  == 1200         \* 0.6 m
Y_ABOVE_GROUND == 2000         \* 1.0 m
PARK_Y         == -19998000    \* -9999 m
OFFSET_EPS_SQ  == 400          \* lengthSq() < 0.0001 m^2

VARIABLES
  phase,                 \* the ecs state: "loading", "scanning" or "placed"
  placed,                \* the component's data attribute
  isRescan, coverVisible, settleFrames, pendingRescan, viewing360,
  materialsApplied, absoluteScaleDisabled,
  gestures,              \* 0 (null) or the slot of the GestureHandler the closure references
  handlers,              \* the GestureHandler instances, by slot
  target,                \* the terrain entity: position x, y, z, orientation rot, uniform scale
  mat, matStore,         \* the mesh's material and the MeshEntry store
  cover,                 \* the module-level _cover element: "none", "created", "raised", "faded"
  xr8Canvas,             \* _xr8Canvas has been captured
  xrRunning,             \* the XR8 pipeline runs
  resets,                \* startRescan continuations, by the await they are parked at
  resetBtn,              \* ArUiOverlay.resetBtn is shown
  boards,                \* BillboardManager: sprites, tap listener, _tapStart, pending init()
  vFading,               \* a closed Viewer360 overlay is still in the DOM (its fade-out timer pends)
  touches,               \* the fingers on the screen, in touch-down order
  queue,                 \* touch events dispatched but not yet delivered
  ev                     \* what the last step did (effects by name)

vars == <<phase, placed, isRescan, coverVisible, settleFrames, pendingRescan, viewing360,
          materialsApplied, absoluteScaleDisabled, gestures, handlers, target,
          mat, matStore, cover, xr8Canvas, xrRunning, resets, resetBtn, boards,
          vFading, touches, queue, ev>>

\* The program state as one record, so that a handler's nested calls compose.
Cur ==
  [phase |-> phase, placed |-> placed, isRescan |-> isRescan, coverVisible |-> coverVisible,
   settleFrames |-> settleFrames, pendingRescan |-> pendingRescan,
   viewing360 |-> viewing360, materialsApplied |-> materialsApplied,
   absoluteScaleDisabled |-> absoluteScaleDisabled, gestures |-> gestures,
   handlers |-> handlers, target |-> target, mat |-> mat, matStore |-> matStore,
   cover |-> cover, xr8Canvas |-> xr8Canvas, xrRunning |-> xrRunning,
   resets |-> resets, resetBtn |-> resetBtn, boards |-> boards,
   vFading |-> vFading, ev |-> {}, ok |-> TRUE]

\* ------------------------------------------------------------ arithmetic
Abs(n) == IF n < 0 THEN -n ELSE n
Min(a, b) == IF a < b THEN a ELSE b
Max(a, b) == IF a > b THEN a ELSE b

RECURSIVE SqrtFrom(_, _)
SqrtFrom(n, r) == IF (r + 1) * (r + 1) > n THEN r ELSE SqrtFrom(n, r + 1)

\* Math.sqrt on the squares that occur (exact on the enumerated positions)
Sqrt(n) ==
  LET coarse == SqrtFrom(n \div 10000, 0) * 100
  IN  SqrtFrom(n, coarse)

\* ------------------------------------------------------------ GestureHandler
ListenerTypes == <<"touchstart", "touchmove", "touchend", "touchcancel">>

NoSf == [on |-> FALSE, id |-> 0, lastX |-> 0, lastY |-> 0]
NoTf == [on |-> FALSE, idA |-> 0, idB |-> 0, prevSpread |-> 0, baseScale |-> 0, initSpread |-> 0]

\* new GestureHandler(...): active = false, listeners = [], sf = null, tf = null
NewHandler == [live |-> TRUE, active |-> FALSE, listeners |-> <<>>, sf |-> NoSf, tf |-> NoTf]
FreeSlot   == [live |-> FALSE, active |-> FALSE, listeners |-> <<>>, sf |-> NoSf, tf |-> NoTf]

attachNoGuard(h) == [h EXCEPT !.active = TRUE, !.listeners = h.listeners \o ListenerTypes]

attach(h) ==
  IF h.active THEN h
  ELSE [h EXCEPT !.active = TRUE, !.listeners = h.listeners \o ListenerTypes]

detachKeepsListeners(h) == [h EXCEPT !.active = FALSE, !.sf = NoSf, !.tf = NoTf]

detachKeepsSession(h) == [h EXCEPT !.active = FALSE, !.listeners = <<>>]

detach(h) ==
  [h EXCEPT !.active = FALSE, !.listeners = <<>>, !.sf = NoSf, !.tf = NoTf]

spread(a, b) == Sqrt((a.x - b.x) * (a.x - b.x) + (a.y - b.y) * (a.y - b.y))

\* touches.find(t => t.identifier === id) ?? touches[k]
FindTouch(ts, id, k) ==
  IF \E j \in 1..Len(ts) : ts[j].id = id
  THEN ts[CHOOSE j \in 1..Len(ts) : ts[j].id = id /\ \A m \in 1..(j - 1) : ts[m].id # id]
  ELSE ts[k]

HasTouch(ts, id) == \E j \in 1..Len(ts) : ts[j].id = id

\* Each handler takes the state r, the slot i of the instance and the event e,
\* and returns the state after the handler.
onStartTracksLatest(r, i, e) ==
  LET ts == e.touches
      n  == Len(ts)
  IN  IF n >= 2
      THEN [r EXCEPT !.handlers[i].sf = NoSf,
                     !.handlers[i].tf =
                        [on |-> TRUE, idA |-> ts[n - 1].id, idB |-> ts[n].id,
                         prevSpread |-> spread(ts[n - 1], ts[n]),
                         baseScale  |-> r.target.scale,
                         initSpread |-> spread(ts[n - 1], ts[n])]]
      ELSE IF n = 1 /\ ~r.handlers[i].tf.on
           THEN [r EXCEPT !.handlers[i].sf =
                             [on |-> TRUE, id |-> ts[1].id, lastX |-> ts[1].x, lastY |-> ts[1].y]]
           ELSE r

onStart(r, i, e) ==
  LET h  == r.handlers[i]
      ts == e.touches
  IN  IF Len(ts) >= 2
      THEN IF ~h.tf.on
           THEN [r EXCEPT !.handlers[i].sf = NoSf,
                          !.handlers[i].tf =
                             [on |-> TRUE, idA |-> ts[1].id, idB |-> ts[2].id,
                              prevSpread |-> spread(ts[1], ts[2]),
                              baseScale  |-> r.target.scale,
                              initSpread |-> spread(ts[1], ts[2])]]
           ELSE [r EXCEPT !.handlers[i].sf = NoSf]
      ELSE IF Len(ts) = 1 /\ ~h.tf.on
           THEN [r EXCEPT !.handlers[i].sf =
                             [on |-> TRUE, id |-> ts[1].id, lastX |-> ts[1].x, lastY |-> ts[1].y]]
           ELSE r

\* Math.max(SCALE_MIN, Math.min(SCALE_MAX, baseScale * ratio))
\* the value standing for NaN
NaN == -1

\* ratio = currentSpread / initSpread; Math.max(SCALE_MIN, Math.min(SCALE_MAX, baseScale * ratio)).
\* A zero divisor gives Infinity, or NaN for 0 / 0, and Math.min and Math.max return
\* NaN when given NaN.
newScale(base, cur, init) ==
  IF init = 0
  THEN IF cur = 0 \/ base = 0 THEN NaN ELSE SCALE_MAX
  ELSE Max(SCALE_MIN, Min(SCALE_MAX, (base * cur) \div init))

spreadGuardNone(cur, init) == TRUE

spreadGuard(cur, init) == cur > MIN_SPREAD /\ init > MIN_SPREAD

moveTwoRotates(r, i, e) ==
  LET h   == r.handlers[i]
      a   == FindTouch(e.touches, h.tf.idA, 1)
      b   == FindTouch(e.touches, h.tf.idB, 2)
      cur == spread(a, b)
  IN  [r EXCEPT !.target.scale = newScale(h.tf.baseScale, cur, h.tf.initSpread),
                !.target.rot = (@ + 1) % 4,
                !.ev = @ \cup {"setScale", "setRotation"},
                !.handlers[i].tf.prevSpread = cur]

moveTwoFromCurrent(r, i, e) ==
  LET h   == r.handlers[i]
      a   == FindTouch(e.touches, h.tf.idA, 1)
      b   == FindTouch(e.touches, h.tf.idB, 2)
      cur == spread(a, b)
      r1  == IF spreadGuard(cur, h.tf.initSpread)
             THEN [r EXCEPT !.target.scale = newScale(r.target.scale, cur, h.tf.initSpread),
                            !.ev = @ \cup {"setScale"}]
             ELSE r
  IN  [r1 EXCEPT !.handlers[i].tf.prevSpread = cur]

moveTwoIncremental(r, i, e) ==
  LET h   == r.handlers[i]
      a   == FindTouch(e.touches, h.tf.idA, 1)
      b   == FindTouch(e.touches, h.tf.idB, 2)
      cur == spread(a, b)
      r1  == IF spreadGuard(cur, h.tf.initSpread)
             THEN [r EXCEPT !.target.scale = newScale(r.target.scale, cur, h.tf.prevSpread),
                            !.ev = @ \cup {"setScale"}]
             ELSE r
  IN  [r1 EXCEPT !.handlers[i].tf.prevSpread = cur]

\* the two-finger branch of _onMove
moveTwo(r, i, e) ==
  LET h   == r.handlers[i]
      a   == FindTouch(e.touches, h.tf.idA, 1)
      b   == FindTouch(e.touches, h.tf.idB, 2)
      cur == spread(a, b)
      r1  == IF spreadGuard(cur, h.tf.initSpread)
             THEN [r EXCEPT !.target.scale = newScale(h.tf.baseScale, cur, h.tf.initSpread),
                            !.ev = @ \cup {"setScale"}]
             ELSE r
  IN  [r1 EXCEPT !.handlers[i].tf.prevSpread = cur]

moveOneSwapped(r, i, e, cam) ==
  LET h == r.handlers[i]
  IN  IF ~HasTouch(e.touches, h.sf.id) THEN r
      ELSE
        LET t  == FindTouch(e.touches, h.sf.id, 1)
            dx == t.x - h.sf.lastX
            dy == t.y - h.sf.lastY
            r1 == [r EXCEPT !.handlers[i].sf.lastX = t.x, !.handlers[i].sf.lastY = t.y]
        IN  IF Abs(dx) < PAN_THRESHOLD /\ Abs(dy) < PAN_THRESHOLD THEN r1
            ELSE IF ~cam.found THEN r1
            ELSE [r1 EXCEPT !.target.x = @ + cam.rx * (-dy) + cam.fx * dx,
                            !.target.z = @ + cam.rz * (-dy) + cam.fz * dx,
                            !.ev = @ \cup {"setPosition"}]

moveOneRotates(r, i, e, cam) ==
  LET h == r.handlers[i]
  IN  IF ~HasTouch(e.touches, h.sf.id) THEN r
      ELSE
        LET t  == FindTouch(e.touches, h.sf.id, 1)
            dx == t.x - h.sf.lastX
            dy == t.y - h.sf.lastY
            r1 == [r EXCEPT !.handlers[i].sf.lastX = t.x, !.handlers[i].sf.lastY = t.y]
        IN  IF Abs(dx) < PAN_THRESHOLD /\ Abs(dy) < PAN_THRESHOLD THEN r1
            ELSE IF ~cam.found THEN r1
            ELSE IF Abs(dx) > Abs(dy)
                 THEN [r1 EXCEPT !.target.rot = (@ + 1) % 4,
                                 !.ev = @ \cup {"setRotation"}]
                 ELSE [r1 EXCEPT !.target.x = @ + cam.fx * (-dy),
                                 !.target.z = @ + cam.fz * (-dy),
                                 !.ev = @ \cup {"setPosition"}]

moveOneAccumulates(r, i, e, cam) ==
  LET h == r.handlers[i]
  IN  IF ~HasTouch(e.touches, h.sf.id) THEN r
      ELSE
        LET t  == FindTouch(e.touches, h.sf.id, 1)
            dx == t.x - h.sf.lastX
            dy == t.y - h.sf.lastY
            r1 == [r EXCEPT !.handlers[i].sf.lastX = t.x, !.handlers[i].sf.lastY = t.y]
        IN  IF Abs(dx) < PAN_THRESHOLD /\ Abs(dy) < PAN_THRESHOLD THEN r
            ELSE IF ~cam.found THEN r1
            ELSE LET depthDelta == (-dy) * DEPTH_SENSITIVITY
                     horizDelta == dx * HORIZONTAL_SENSITIVITY
                 IN  [r1 EXCEPT !.target.x = @ + cam.fx * depthDelta + cam.rx * horizDelta,
                                !.target.z = @ + cam.fz * depthDelta + cam.rz * horizDelta,
                                !.ev = @ \cup {"setPosition"}]

moveOneNoThreshold(r, i, e, cam) ==
  LET h == r.handlers[i]
  IN  IF ~HasTouch(e.touches, h.sf.id) THEN r
      ELSE
        LET t  == FindTouch(e.touches, h.sf.id, 1)
            dx == t.x - h.sf.lastX
            dy == t.y - h.sf.lastY
            r1 == [r EXCEPT !.handlers[i].sf.lastX = t.x, !.handlers[i].sf.lastY = t.y]
        IN  IF ~cam.found THEN r1
            ELSE [r1 EXCEPT !.target.x = @ + cam.fx * (-dy) + cam.rx * dx,
                            !.target.z = @ + cam.fz * (-dy) + cam.rz * dx,
                            !.ev = @ \cup {"setPosition"}]

moveOneFallsBack(r, i, e, cam) ==
  LET h  == r.handlers[i]
      t  == FindTouch(e.touches, h.sf.id, 1)
      dx == t.x - h.sf.lastX
      dy == t.y - h.sf.lastY
      r1 == [r EXCEPT !.handlers[i].sf.lastX = t.x, !.handlers[i].sf.lastY = t.y]
  IN  IF Abs(dx) < PAN_THRESHOLD /\ Abs(dy) < PAN_THRESHOLD THEN r1
      ELSE IF ~cam.found THEN r1
      ELSE [r1 EXCEPT !.target.x = @ + cam.fx * (-dy) + cam.rx * dx,
                      !.target.z = @ + cam.fz * (-dy) + cam.rz * dx,
                      !.ev = @ \cup {"setPosition"}]

\* the single-finger branch of _onMove; cam is the camera found by _getCamera
\* (cam.found = FALSE when the scene holds none), with its forward and right
\* vectors projected on the ground plane and normalised
moveOne(r, i, e, cam) ==
  LET h == r.handlers[i]
  IN  IF ~HasTouch(e.touches, h.sf.id) THEN r
      ELSE
        LET t  == FindTouch(e.touches, h.sf.id, 1)
            dx == t.x - h.sf.lastX
            dy == t.y - h.sf.lastY
            r1 == [r EXCEPT !.handlers[i].sf.lastX = t.x, !.handlers[i].sf.lastY = t.y]
        IN  IF Abs(dx) < PAN_THRESHOLD /\ Abs(dy) < PAN_THRESHOLD THEN r1
            ELSE IF ~cam.found THEN r1
            ELSE LET depthDelta == (-dy) * DEPTH_SENSITIVITY
                     horizDelta == dx * HORIZONTAL_SENSITIVITY
                 IN  [r1 EXCEPT !.target.x = @ + cam.fx * depthDelta + cam.rx * horizDelta,
                                !.target.z = @ + cam.fz * depthDelta + cam.rz * horizDelta,
                                !.ev = @ \cup {"setPosition"}]

onMove(r, i, e, cam) ==
  LET h == r.handlers[i]
  IN  IF Len(e.touches) >= 2 /\ h.tf.on THEN moveTwo(r, i, e)
      ELSE IF h.sf.on /\ Len(e.touches) = 1 THEN moveOne(r, i, e, cam)
      ELSE r

onEndKeepsSf(r, i, e) ==
  LET ts == e.touches
  IN  IF Len(ts) = 0
      THEN [r EXCEPT !.handlers[i].sf = NoSf, !.handlers[i].tf = NoTf]
      ELSE IF Len(ts) = 1
           THEN [r EXCEPT !.handlers[i].tf = NoTf]
           ELSE r

onEnd(r, i, e) ==
  LET ts == e.touches
  IN  IF Len(ts) = 0
      THEN [r EXCEPT !.handlers[i].sf = NoSf, !.handlers[i].tf = NoTf]
      ELSE IF Len(ts) = 1
           THEN [r EXCEPT !.handlers[i].tf = NoTf,
                          !.handlers[i].sf =
                             [on |-> TRUE, id |-> ts[1].id, lastX |-> ts[1].x, lastY |-> ts[1].y]]
           ELSE r

onCancelAsEnd(r, i, e) ==
  LET ts == e.touches
  IN  IF Len(ts) = 0
      THEN [r EXCEPT !.handlers[i].sf = NoSf, !.handlers[i].tf = NoTf]
      ELSE IF Len(ts) = 1
           THEN [r EXCEPT !.handlers[i].tf = NoTf,
                          !.handlers[i].sf =
                             [on |-> TRUE, id |-> ts[1].id, lastX |-> ts[1].x, lastY |-> ts[1].y]]
           ELSE r

onCancel(r, i, e) ==
  [r EXCEPT !.handlers[i].sf = NoSf, !.handlers[i].tf = NoTf]

\* ------------------------------------------------------------ materials, cover, model
\* captureAndGrey: store.length = 0; store the mesh's material; mesh.material = greyMat
captureAndGrey(r) == [r EXCEPT !.matStore = <<r.mat>>, !.mat = "grey"]

restoreNothing(r) == r

restoreMaterials(r) ==
  IF r.matStore = <<>> THEN r
  ELSE [r EXCEPT !.mat = r.matStore[1], !.matStore = <<>>]

hideModel(r) ==
  [r EXCEPT !.target = [x |-> 0, y |-> PARK_Y, z |-> 0, rot |-> 0, scale |-> HIDDEN_SCALE]]

\* hideCover: the element leaves _cover at once (its removal from the DOM is a timer);
\* the continuations still waiting on its fade-in no longer wait on the current cover
coverStays(r) == r

hideCover(r) ==
  IF r.cover = "none" THEN r
  ELSE [r EXCEPT !.cover = "none",
                 !.resets.rafOld  = @ + r.resets.raf,
                 !.resets.fadeOld = @ + r.resets.fade,
                 !.resets.raf  = 0,
                 !.resets.fade = 0,
                 !.resets.gone = @ + 1,
                 !.ev = @ \cup {"hideCover"}]

offsetTowardCameraNoEps(hitX, hitZ, camX, camZ, offset) ==
  LET dx    == camX - hitX
      dz    == camZ - hitZ
      lenSq == dx * dx + dz * dz
      len   == Sqrt(lenSq)
  IN  IF lenSq = 0 THEN [x |-> hitX, z |-> hitZ]
      ELSE [x |-> hitX + (dx * offset) \div len, z |-> hitZ + (dz * offset) \div len]

offsetFromTarget(hitX, hitZ, camX, camZ, offset) ==
  LET dx    == camX - hitX
      dz    == camZ - hitZ
      lenSq == dx * dx + dz * dz
      len   == Sqrt(lenSq)
      fromX == IF target.y = PARK_Y THEN hitX ELSE target.x
      fromZ == IF target.y = PARK_Y THEN hitZ ELSE target.z
  IN  IF lenSq < OFFSET_EPS_SQ THEN [x |-> fromX, z |-> fromZ]
      ELSE [x |-> fromX + (dx * offset) \div len, z |-> fromZ + (dz * offset) \div len]

\* offsetTowardCamera; dir.normalize() divides by the length
offsetTowardCamera(hitX, hitZ, camX, camZ, offset) ==
  LET dx    == camX - hitX
      dz    == camZ - hitZ
      lenSq == dx * dx + dz * dz
      len   == Sqrt(lenSq)
  IN  IF lenSq < OFFSET_EPS_SQ THEN [x |-> hitX, z |-> hitZ]
      ELSE [x |-> hitX + (dx * offset) \div len, z |-> hitZ + (dz * offset) \div len]

\* ------------------------------------------------------------ GestureHandler instances
\* An instance that the closure no longer references and that has no listener
\* registered on window is unreachable: its slot is free again.
Collect(r) ==
  [r EXCEPT !.handlers =
     [i \in 1..MaxHandlers |->
        IF r.handlers[i].live /\ i # r.gestures /\ r.handlers[i].listeners = <<>>
        THEN FreeSlot ELSE r.handlers[i]]]

HasFreeSlot(r) == \E i \in 1..MaxHandlers : ~r.handlers[i].live

FreeSlotOf(r) == CHOOSE i \in 1..MaxHandlers :
                   ~r.handlers[i].live /\ \A j \in 1..(i - 1) : r.handlers[j].live

\* gestures?.detach()
detachGestures(r) ==
  IF r.gestures = 0 THEN r
  ELSE [r EXCEPT !.handlers[r.gestures] = detach(@), !.ev = @ \cup {"detach"}]

dropGesturesNoDetach(r) == [r EXCEPT !.gestures = 0]

\* gestures?.detach(); gestures = null
dropGestures(r) == Collect([detachGestures(r) EXCEPT !.gestures = 0])

\* BillboardManager.dispose: _detachTapListener removes the listeners it still references
disposeBoards(r) == [r EXCEPT !.boards.tap = FALSE, !.boards.sprites = FALSE]

\* ------------------------------------------------------------ the ecs states
enterScanningHidesCover(r) ==
  LET r1 == restoreMaterials(hideModel(hideCover(r)))
  IN  [r1 EXCEPT !.phase = "scanning", !.materialsApplied = FALSE, !.settleFrames = 0,
                 !.placed = FALSE,
                 !.ev = @ \cup {"enterScanning"}]

\* scanning.onEnter
enterScanning(r) ==
  LET r1 == restoreMaterials(hideModel(r))
  IN  [r1 EXCEPT !.phase = "scanning", !.materialsApplied = FALSE, !.settleFrames = 0,
                 !.placed = FALSE,
                 !.ev = @ \cup {"enterScanning"}]

\* placed.onExit
exitPlaced(r) ==
  LET r1 == disposeBoards(dropGestures(r))
  IN  [r1 EXCEPT !.resetBtn = FALSE, !.ev = @ \cup {"exitPlaced"}]

\* placed.onEnter up to its await: the handler of the previous visit is detached, a
\* fresh one is constructed and attached, and boards.init() is started
enterPlaced(r) ==
  LET r1 == dropGestures(r)
  IN  IF ~HasFreeSlot(r1) THEN [r EXCEPT !.ok = FALSE]
      ELSE
        LET i  == FreeSlotOf(r1)
            r3 == disposeBoards(
                    [r1 EXCEPT !.gestures = i, !.handlers[i] = attach(NewHandler)])
        IN  [r3 EXCEPT !.phase = "placed", !.isRescan = FALSE,
                       !.boards.initPending = @ + 1,
                       !.ev = @ \cup {"enterPlaced", "attach"}]

\* doReady.trigger(), doPlaced.trigger(), doRescan.trigger(): the transition is taken
\* when the current state registered it with onTrigger, and the trigger is lost otherwise
doReadyToPlaced(r) == IF r.phase = "loading" THEN enterPlaced(r) ELSE r

doReady(r)  == IF r.phase = "loading" THEN enterScanning(r) ELSE r

doPlaced(r) == IF r.phase = "scanning" THEN enterPlaced(r) ELSE r

doRescan(r) == IF r.phase = "placed" THEN enterScanning(exitPlaced(r)) ELSE r

\* ------------------------------------------------------------ the reset sequence
InFlight(r) ==
  r.resets.raf + r.resets.fade + r.resets.rafOld + r.resets.fadeOld + r.resets.xr

\* restartXR8 and what follows it in startRescan: without a captured canvas it
\* returns at once and the trigger fires; otherwise XR8.stop() and the 400 ms wait
restartXR8(r) ==
  IF ~r.xr8Canvas THEN doRescan(r)
  ELSE [r EXCEPT !.xrRunning = FALSE, !.resets.xr = @ + 1,
                 !.ev = @ \cup {"XR8.stop"}]

\* startRescan up to its first pending await.  showCover resolves at once when a
\* cover exists, and the sequence runs on to restartXR8 in the same task.
startRescan(r) ==
  LET r1 == hideModel(restoreMaterials(disposeBoards(dropGestures(r))))
      r2 == [r1 EXCEPT !.materialsApplied = FALSE, !.isRescan = TRUE,
                       !.coverVisible = TRUE, !.settleFrames = 0,
                       !.pendingRescan = FALSE, !.ev = @ \cup {"startRescan"}]
  IN  IF r2.cover # "none" THEN restartXR8(r2)
      ELSE [r2 EXCEPT !.cover = "created", !.resets.raf = @ + 1,
                      !.ev = @ \cup {"showCover"}]

\* onHotspotTap
onHotspotTap(r) ==
  IF r.viewing360 THEN r
  ELSE [detachGestures(r) EXCEPT !.viewing360 = TRUE, !.resetBtn = FALSE,
                                 !.ev = @ \cup {"viewer.open"}]

\* ------------------------------------------------------------ state after construction
NoResets == [raf |-> 0, fade |-> 0, rafOld |-> 0, fadeOld |-> 0, xr |-> 0, gone |-> 0]

NoBoards == [tap |-> FALSE, leaked |-> FALSE, sprites |-> FALSE, tapStart |-> FALSE,
             initPending |-> 0]

Parked == [x |-> 0, y |-> PARK_Y, z |-> 0, rot |-> 0, scale |-> HIDDEN_SCALE]

\* the closure's initial values, then loading.onEnter
Init ==
  /\ phase = "loading" /\ placed = FALSE
  /\ isRescan = FALSE /\ coverVisible = FALSE /\ settleFrames = 0
  /\ pendingRescan = FALSE /\ viewing360 = FALSE
  /\ materialsApplied = FALSE /\ absoluteScaleDisabled = FALSE
  /\ gestures = 0
  /\ handlers = [i \in 1..MaxHandlers |-> FreeSlot]
  /\ target = Parked
  /\ mat = "original" /\ matStore = <<>>
  /\ cover = "none" /\ xr8Canvas = FALSE /\ xrRunning = TRUE
  /\ resets = NoResets /\ resetBtn = FALSE /\ boards = NoBoards /\ vFading = FALSE
  /\ touches = <<>> /\ queue = <<>> /\ ev = {}

InRange(t) == t.y = PARK_Y \/ (Abs(t.x) <= MaxPos /\ Abs(t.z) <= MaxPos)

\* The step from the current state to r
Commit(r) ==
  \E c \in {r} :
    /\ c.ok
    /\ InRange(c.target)
    /\ InFlight(c) <= MaxInFlight
    /\ c.boards.initPending <= MaxInit
    /\ c.resets.gone <= MaxGone
    /\ phase' = c.phase /\ placed' = c.placed
    /\ isRescan' = c.isRescan /\ coverVisible' = c.coverVisible
    /\ settleFrames' = c.settleFrames /\ pendingRescan' = c.pendingRescan
    /\ viewing360' = c.viewing360 /\ materialsApplied' = c.materialsApplied
    /\ absoluteScaleDisabled' = c.absoluteScaleDisabled
    /\ gestures' = c.gestures /\ handlers' = Collect(c).handlers
    /\ target' = c.target /\ mat' = c.mat /\ matStore' = c.matStore
    /\ cover' = c.cover /\ xr8Canvas' = c.xr8Canvas /\ xrRunning' = c.xrRunning
    /\ resets' = c.resets /\ resetBtn' = c.resetBtn /\ boards' = c.boards
    /\ vFading' = c.vFading /\ ev' = c.ev

\* ------------------------------------------------------------ ticks
\* loading.onTick; canvasFound and ready are what the DOM and the model loader answer
notReadyTriggers(r) == doReady([r EXCEPT !.ev = @ \cup {"notReady"}])

\* isModelReady answered false: the tick ends
notReady(r) == [r EXCEPT !.ev = @ \cup {"notReady"}]

LoadingTick ==
  /\ phase = "loading"
  /\ \E canvasFound \in BOOLEAN, ready \in BOOLEAN :
       LET r1 == [Cur EXCEPT !.xr8Canvas = @ \/ canvasFound]
       IN  Commit(IF ready THEN doReady([r1 EXCEPT !.absoluteScaleDisabled = TRUE])
                  ELSE notReady(r1))
  /\ UNCHANGED <<touches, queue>>

\* the ground points the ray hits and where the camera stands
Hits == {[x |-> 0, y |-> 0, z |-> -1600]}

CamPos == [x |-> 0, z |-> 0]

placeKeepsScale(r, hit) ==
  LET p  == offsetTowardCamera(hit.x, hit.z, CamPos.x, CamPos.z, CAMERA_OFFSET)
      r2 == [r EXCEPT !.target.x = p.x, !.target.y = hit.y + Y_ABOVE_GROUND,
                      !.target.z = p.z, !.ev = @ \cup {"place"}]
      r3 == IF r2.coverVisible THEN [hideCover(r2) EXCEPT !.coverVisible = FALSE] ELSE r2
  IN  doPlaced(r3)

\* the placement branch of scanning.onTick: the pose is computed once, the target is
\* posed, and doPlaced.trigger() comes last
place(r, hit) ==
  LET posed(p) ==
        LET r1 == IF r.materialsApplied THEN r
                  ELSE [captureAndGrey(r) EXCEPT !.materialsApplied = TRUE]
            r2 == [r1 EXCEPT !.target.x = p.x, !.target.y = hit.y + Y_ABOVE_GROUND,
                             !.target.z = p.z, !.target.scale = INITIAL_SCALE,
                             !.ev = @ \cup {"place"}]
        IN  IF r2.coverVisible THEN [hideCover(r2) EXCEPT !.coverVisible = FALSE] ELSE r2
      pose == {offsetTowardCamera(hit.x, hit.z, CamPos.x, CamPos.z, CAMERA_OFFSET)}
  IN  CHOOSE out \in {doPlaced(r3) : r3 \in {posed(p) : p \in pose}} : TRUE

settledAtOnce(r) == TRUE

settledAfterWait(r) == ~(r.settleFrames < SETTLE_FRAMES)

settled(r) == ~(r.isRescan /\ r.settleFrames < SETTLE_FRAMES)

\* scanning.onTick with a ground hit
scanHit(r, hit) ==
  LET r1 == [r EXCEPT !.settleFrames = @ + 1, !.ev = @ \cup {"hit"}]
  IN  IF settled(r1) THEN place(r1, hit) ELSE r1

noHitPlaces(r) == place([r EXCEPT !.ev = @ \cup {"noHit"}], CHOOSE hit \in Hits : TRUE)

\* groundHits.length === 0: the tick ends
noHit(r) == [r EXCEPT !.ev = @ \cup {"noHit"}]

ScanTick ==
  /\ phase = "scanning"
  /\ \/ Commit(noHit(Cur))
     \/ \E hit \in Hits : Commit(scanHit(Cur, hit))
  /\ UNCHANGED <<touches, queue>>

\* placed.onTick
PlacedTick ==
  /\ phase = "placed"
  /\ Commit(IF pendingRescan THEN startRescan(Cur) ELSE Cur)
  /\ UNCHANGED <<touches, queue>>

\* ------------------------------------------------------------ continuations and timers
\* placed.onEnter after boards.init() resolved: init attached the tap listener
\* (overwriting the references to a pair that is still attached)
PlacedEnterResume ==
  /\ boards.initPending > 0
  /\ Commit([Cur EXCEPT !.boards.initPending = @ - 1,
                        !.boards.leaked = @ \/ boards.tap,
                        !.boards.tap = TRUE, !.boards.sprites = TRUE,
                        !.resetBtn = TRUE, !.placed = TRUE,
                        !.ev = @ \cup {"showResetButton"}])
  /\ UNCHANGED <<touches, queue>>

\* showCover's requestAnimationFrame: the cover starts its fade-in
CoverRaf ==
  /\ \/ /\ resets.raf > 0
        /\ Commit([Cur EXCEPT !.resets.raf = @ - 1, !.resets.fade = @ + 1, !.cover = "raised"])
     \/ /\ resets.rafOld > 0
        /\ Commit([Cur EXCEPT !.resets.rafOld = @ - 1, !.resets.fadeOld = @ + 1])
  /\ UNCHANGED <<touches, queue>>

\* showCover's 230 ms timer resolves the promise; startRescan goes on to restartXR8
CoverFadeDone ==
  /\ \/ /\ resets.fade > 0
        /\ Commit(restartXR8([Cur EXCEPT !.resets.fade = @ - 1, !.cover = "faded"]))
     \/ /\ resets.fadeOld > 0
        /\ Commit(restartXR8([Cur EXCEPT !.resets.fadeOld = @ - 1]))
  /\ UNCHANGED <<touches, queue>>

\* restartXR8's 400 ms timer: XR8.run, then startRescan fires doRescan
XrDelayDone ==
  /\ resets.xr > 0
  /\ Commit(doRescan([Cur EXCEPT !.resets.xr = @ - 1, !.xrRunning = TRUE,
                                 !.ev = @ \cup {"XR8.run", "doRescan.trigger"}]))
  /\ UNCHANGED <<touches, queue>>

\* hideCover's 320 ms timer: the element that was taken down leaves the document
CoverRemoved ==
  /\ resets.gone > 0
  /\ Commit([Cur EXCEPT !.resets.gone = @ - 1])
  /\ UNCHANGED <<touches, queue>>

\* ------------------------------------------------------------ the user
\* a click on the reset button: hideResetButton(), then the callback.  A cover in the
\* document, raised or taken down, lies above the button and takes the click.
ResetClick ==
  /\ resetBtn
  /\ cover = "none" /\ resets.gone = 0
  /\ Commit(startRescan([Cur EXCEPT !.resetBtn = FALSE]))
  /\ UNCHANGED <<touches, queue>>

\* a click on the 360 viewer's back button (it stays clickable while the closed
\* overlay fades out): Viewer360.close runs the onClose callback
BackClick ==
  /\ viewing360 \/ vFading
  /\ Commit([Cur EXCEPT !.vFading = TRUE, !.viewing360 = FALSE, !.pendingRescan = TRUE,
                        !.ev = @ \cup {"viewer.close"}])
  /\ UNCHANGED <<touches, queue>>

\* the closed overlay's 380 ms timer removes it
OverlayRemoved ==
  /\ vFading
  /\ Commit([Cur EXCEPT !.vFading = FALSE])
  /\ UNCHANGED <<touches, queue>>

\* ------------------------------------------------------------ touch input
\* where a finger may be.  Fine: the first finger rests and the others are 0, 10, 20
\* or 40 px to its right.  Coarse: one finger, at one of two places 40 px apart.
Fine ==
  {[id |-> f, x |-> px, y |-> 0] : f \in {1}, px \in {0}} \cup
  {[id |-> f, x |-> px, y |-> 0] : f \in 2..MaxTouches, px \in {0, 100, 200, 400}}

Coarse == {[id |-> f, x |-> px, y |-> 0] : f \in {1}, px \in {0, 400}}

\* the camera _getCamera finds, with its forward and right vectors on the ground plane
Cams == {[found |-> TRUE,  fx |-> 0, fz |-> -1, rx |-> 1, rz |-> 0],
         [found |-> FALSE, fx |-> 0, fz |-> 0,  rx |-> 0, rz |-> 0]}

Down(f) == \E j \in 1..Len(touches) : touches[j].id = f

Without(ts, f) == SelectSeq(ts, LAMBDA t : t.id # f)

Moved(ts, t) == [j \in 1..Len(ts) |-> IF ts[j].id = t.id THEN t ELSE ts[j]]

\* the browser queues the event with the touch list as it is now
Emit(type, ts) ==
  /\ Len(queue) < MaxQueue
  /\ touches' = ts
  /\ queue' = Append(queue, [type |-> type, touches |-> ts])
  /\ ev' = {}
  /\ UNCHANGED <<phase, placed, isRescan, coverVisible, settleFrames, pendingRescan,
                 viewing360, materialsApplied, absoluteScaleDisabled, gestures, handlers,
                 target, mat, matStore, cover, xr8Canvas, xrRunning, resets, resetBtn,
                 boards, vFading>>

TouchDown(P) ==
  \E t \in P :
    /\ ~Down(t.id) /\ Len(touches) < MaxFingers
    /\ Emit("touchstart", Append(touches, t))

TouchMove(P) ==
  \E t \in P :
    /\ Down(t.id)
    /\ Moved(touches, t) # touches
    /\ Emit("touchmove", Moved(touches, t))

TouchUp ==
  \E f \in {touches[j].id : j \in 1..Len(touches)} :
    /\ Down(f)
    /\ Emit("touchend", Without(touches, f))

TouchCancel ==
  /\ touches # <<>>
  /\ Emit("touchcancel", <<>>)

\* the browser cancels one touch and leaves the others
TouchCancelOne ==
  \E f \in {touches[j].id : j \in 1..Len(touches)} :
    /\ Len(touches) >= 2
    /\ Emit("touchcancel", Without(touches, f))

Listens(h, type) == \E k \in 1..Len(h.listeners) : h.listeners[k] = type

\* the listener a GestureHandler registered for the event's type
handle(r, i, e, cam) ==
  LET r1 == [r EXCEPT !.ev = @ \cup {"handled", e.type}]
  IN  CASE e.type = "touchstart" -> onStart(r1, i, e)
        [] e.type = "touchmove"  -> onMove(r1, i, e, cam)
        [] e.type = "touchend"   -> onEnd(r1, i, e)
        [] OTHER                 -> onCancel(r1, i, e)

RECURSIVE deliverFrom(_, _, _, _)
deliverFrom(r, i, e, cam) ==
  IF i > MaxHandlers THEN r
  ELSE deliverFrom(IF Listens(r.handlers[i], e.type) THEN handle(r, i, e, cam) ELSE r,
                   i + 1, e, cam)

\* BillboardManager's tap listeners; tapHit says that the touch was short, did not
\* move, and that the ray from it hits a hotspot sprite
deliverTap(r, e, tapHit) ==
  IF ~(r.boards.tap \/ r.boards.leaked) THEN r
  ELSE IF e.type = "touchstart"
       THEN IF Len(e.touches) = 1 THEN [r EXCEPT !.boards.tapStart = TRUE] ELSE r
       ELSE IF e.type = "touchend" /\ r.boards.tapStart
            THEN LET r1 == [r EXCEPT !.boards.tapStart = FALSE]
                 IN  IF tapHit /\ r1.boards.sprites THEN onHotspotTap(r1) ELSE r1
            ELSE r

\* the browser delivers the oldest queued event to the listeners registered now
DispatchWith(C) ==
  /\ queue # <<>>
  /\ \E cam \in C, tapHit \in BOOLEAN :
       Commit(deliverTap(deliverFrom(Cur, 1, Head(queue), cam), Head(queue), tapHit))
  /\ queue' = Tail(queue)
  /\ UNCHANGED touches

Dispatch == DispatchWith(Cams)

\* The browser delivers the event as soon as the touch list changes.  Only a move
\* looks for the camera and only a touch-end casts the ray at the hotspots.
Deliver(type, ts) ==
  /\ queue = <<>>
  /\ \E cam \in IF type = "touchmove" THEN Cams ELSE {c \in Cams : c.found},
        tapHit \in IF type = "touchend" THEN BOOLEAN ELSE {FALSE} :
       LET e == [type |-> type, touches |-> ts]
       IN  Commit(deliverTap(deliverFrom(Cur, 1, e, cam), e, tapHit))
  /\ touches' = ts
  /\ UNCHANGED queue

Press(P) ==
  \E t \in P :
    /\ ~Down(t.id) /\ Len(touches) < MaxFingers
    /\ Deliver("touchstart", Append(touches, t))

Drag(P) ==
  \E t \in P :
    /\ Down(t.id)
    /\ Moved(touches, t) # touches
    /\ Deliver("touchmove", Moved(touches, t))

\* the finger that went down last is lifted first
Lift ==
  /\ touches # <<>>
  /\ Deliver("touchend", SubSeq(touches, 1, Len(touches) - 1))

\* ------------------------------------------------------------ the application
Next ==
  \/ LoadingTick \/ ScanTick \/ PlacedTick \/ PlacedEnterResume
  \/ CoverRaf \/ CoverFadeDone \/ CoverRemoved \/ XrDelayDone
  \/ ResetClick \/ BackClick \/ OverlayRemoved
  \/ Press(Coarse) \/ Drag(Coarse) \/ Lift

Spec == Init /\ [][Next]_vars

\* ------------------------------------------------------------ one GestureHandler
\* placed.onEnter has constructed the handler of the first placement
InitGesture ==
  /\ phase = "placed" /\ placed = FALSE
  /\ isRescan = FALSE /\ coverVisible = FALSE /\ settleFrames = 1
  /\ pendingRescan = FALSE /\ viewing360 = FALSE
  /\ materialsApplied = TRUE /\ absoluteScaleDisabled = TRUE
  /\ gestures = 1
  /\ handlers = [i \in 1..MaxHandlers |-> IF i = 1 THEN NewHandler ELSE FreeSlot]
  /\ target = [x |-> 0, y |-> Y_ABOVE_GROUND, z |-> -400, rot |-> 0, scale |-> INITIAL_SCALE]
  /\ mat = "grey" /\ matStore = <<"original">>
  /\ cover = "none" /\ xr8Canvas = TRUE /\ xrRunning = TRUE
  /\ resets = NoResets /\ resetBtn = FALSE /\ boards = NoBoards /\ vFading = FALSE
  /\ touches = <<>> /\ queue = <<>> /\ ev = {}

CallAttach ==
  /\ Commit([Cur EXCEPT !.handlers[1] = attach(@),
                        !.ev = {"attach"} \cup (IF handlers[1].active THEN {"again"} ELSE {})])
  /\ UNCHANGED <<touches, queue>>

CallDetach ==
  /\ Commit([Cur EXCEPT !.handlers[1] = detach(@),
                        !.ev = {"detach"} \cup (IF handlers[1].sf.on THEN {"midPan"} ELSE {})
                                         \cup (IF handlers[1].tf.on THEN {"midPinch"} ELSE {})])
  /\ UNCHANGED <<touches, queue>>

NextGesture ==
  \/ CallAttach \/ CallDetach
  \/ TouchDown(Fine) \/ TouchMove(Fine) \/ TouchUp \/ TouchCancel \/ Dispatch

SpecGesture == InitGesture /\ [][NextGesture]_vars

\* ------------------------------------------------------------ the handler alone, three fingers
\* Two fingers 20 px apart, and a third finger 40 px or 80 px from the first; the
\* user stops putting fingers down and moving them once the scale has changed.
Three ==
  IF target.scale # INITIAL_SCALE THEN {}
  ELSE {[id |-> 1, x |-> 0, y |-> 0], [id |-> 2, x |-> 200, y |-> 0]} \cup
       {[id |-> MaxFingers, x |-> px, y |-> 0] : px \in {400, 800}}

NextThree ==
  \/ CallAttach \/ CallDetach
  \/ TouchDown(Three) \/ TouchMove(Three) \/ TouchUp \/ TouchCancel \/ TouchCancelOne
  \/ Dispatch

SpecThree == InitGesture /\ [][NextThree]_vars

\* ------------------------------------------------------------ the handler alone, panning
\* one finger at a time, on a 3 x 3 grid of 20 px
PanPts == {[id |-> f, x |-> px, y |-> py] : f \in {1}, px \in {0, 200, 400}, py \in {0, 200, 400}}

\* the camera looks along -z, or is turned a quarter turn to look along -x
PanCams ==
  Cams \cup {[found |-> TRUE, fx |-> -1, fz |-> 0, rx |-> 0, rz |-> -1]}

NextPan ==
  \/ CallAttach \/ CallDetach
  \/ TouchDown(PanPts) \/ TouchMove(PanPts) \/ TouchUp \/ TouchCancel
  \/ DispatchWith(PanCams)

SpecPan == InitGesture /\ [][NextPan]_vars

\* ------------------------------------------------------------ the placement pose alone
\* ground points the ray hits
PoseHits ==
  {[x |-> hx, y |-> hy, z |-> hz] : hx \in {-300, 0, 300}, hy \in {0, 200}, hz \in {-1600, -400, 0}}

\* Where the camera stands, seen from the hit point: above it, less than 0.01 m from
\* it, exactly 0.01 m from it, and 0.15 m to 1 m from it.
PoseOffsets ==
  {[x |-> 0, z |-> 0], [x |-> 10, z |-> 0], [x |-> 0, z |-> -10], [x |-> 10, z |-> 10],
   [x |-> -12, z |-> 15], [x |-> 12, z |-> 16], [x |-> 0, z |-> 20],
   [x |-> 300, z |-> 0], [x |-> 0, z |-> 1600], [x |-> 300, z |-> 400],
   [x |-> -900, z |-> 1200], [x |-> 1200, z |-> -1600]}

\* the name of a call, from its arguments
PoseLabel(hit, cam) == ToString(<<hit.x, hit.y, hit.z, cam.x, cam.z>>)

\* The pose computation of scanning.onTick and its application to the target; the
\* machine stays in Scanning so that the computation is called again.
PoseTick ==
  \E hit \in PoseHits, d \in PoseOffsets :
    LET cam == [x |-> hit.x + d.x, z |-> hit.z + d.z]
        p   == offsetTowardCamera(hit.x, hit.z, cam.x, cam.z, CAMERA_OFFSET)
        py  == hit.y + Y_ABOVE_GROUND
    IN  /\ phase = "scanning"
        /\ target' = [target EXCEPT !.x = p.x, !.y = py, !.z = p.z, !.scale = INITIAL_SCALE]
        /\ ev' = {"pose", PoseLabel(hit, cam)} \cup
                 (IF PoseLabel(hit, cam) \in ev THEN {"again"} ELSE {})
        /\ UNCHANGED <<phase, placed, isRescan, coverVisible, settleFrames, pendingRescan,
                       viewing360, materialsApplied, absoluteScaleDisabled, gestures,
                       handlers, mat, matStore, cover, xr8Canvas, xrRunning, resets,
                       resetBtn, boards, vFading, touches, queue>>

\* Scanning, entered from Loading
InitPose ==
  /\ phase = "scanning" /\ placed = FALSE
  /\ isRescan = FALSE /\ coverVisible = FALSE /\ settleFrames = 0
  /\ pendingRescan = FALSE /\ viewing360 = FALSE
  /\ materialsApplied = FALSE /\ absoluteScaleDisabled = TRUE
  /\ gestures = 0
  /\ handlers = [i \in 1..MaxHandlers |-> FreeSlot]
  /\ target = Parked
  /\ mat = "original" /\ matStore = <<>>
  /\ cover = "none" /\ xr8Canvas = TRUE /\ xrRunning = TRUE
  /\ resets = NoResets /\ resetBtn = FALSE /\ boards = NoBoards /\ vFading = FALSE
  /\ touches = <<>> /\ queue = <<>> /\ ev = {}

NextPose == PoseTick

SpecPose == InitPose /\ [][NextPose]_vars

\* ------------------------------------------------------------ the application, pinching
\* a GestureHandler listens for touch events
Listening == \E i \in 1..MaxHandlers : handlers[i].listeners # <<>>

\* The user puts fingers down while a handler listens: the first finger goes down
\* and rests, the others go down 20 px or 320 px to its right (spreads in ratio 16).
Pinch ==
  IF ~Listening THEN {}
  ELSE IF touches = <<>> THEN {[id |-> 1, x |-> 0, y |-> 0]}
  ELSE {[id |-> f, x |-> px, y |-> 0] : f \in 2..MaxTouches, px \in {200, 3200}}

NextPinch ==
  \/ LoadingTick \/ ScanTick \/ PlacedTick \/ PlacedEnterResume
  \/ CoverRaf \/ CoverFadeDone \/ CoverRemoved \/ XrDelayDone
  \/ ResetClick \/ BackClick \/ OverlayRemoved
  \/ Press(Pinch) \/ Drag(Pinch) \/ Lift

SpecPinch == Init /\ [][NextPinch]_vars

\* ------------------------------------------------------------ claims: lifecycle
Attached == {i \in 1..MaxHandlers : handlers[i].listeners # <<>> \/ handlers[i].active}

\* C1: a GestureHandler has listeners registered only while the phase is Placed, and
\* in the state that enters Scanning no GestureHandler is attached and every
\* instance's single-touch and two-touch session is cleared.
C1_AttachedOnlyWhilePlaced ==
  /\ Attached # {} => phase = "placed"
  /\ "enterScanning" \in ev =>
       \A i \in 1..MaxHandlers :
         /\ handlers[i].listeners = <<>> /\ ~handlers[i].active
         /\ ~handlers[i].sf.on /\ ~handlers[i].tf.on

\* Scanning is re-entered in a step in which placed.onExit detached an attached handler
C1_Witness == {"enterScanning", "exitPlaced", "detach"} \subseteq ev

\* C2: at most one GestureHandler instance is attached in any state, and exactly one
\* is attached in the state the Placed enter handler leaves when it reaches its await.
C2_OneAttachedInstance ==
  /\ Cardinality(Attached) <= 1
  /\ "enterPlaced" \in ev => Cardinality(Attached) = 1

\* Placed is entered again after a reset cycle
C2_Witness == "enterPlaced" \in ev /\ "hideCover" \in ev /\ Cardinality(Attached) = 1

\* C3: every transition from Placed to Scanning enters Scanning with isRescan true.
C3_RescanFlagOnReentry == "exitPlaced" \in ev /\ phase = "scanning" => isRescan

\* C4: in a rescan SETTLE_FRAMES (20) valid hits are required: while isRescan holds, a
\* valid hit that brings the settle counter to less than 20 leaves the phase Scanning,
\* and the hit that brings it to 20 places the target and enters Placed.
C4_TwentyHitsSettle ==
  [][ phase = "scanning" /\ isRescan /\ "hit" \in ev' =>
        /\ settleFrames' = settleFrames + 1
        /\ settleFrames' < 20 => phase' = "scanning" /\ "place" \notin ev'
        /\ settleFrames' = 20 => phase' = "placed" /\ "place" \in ev' ]_vars

\* the 19th hit of a rescan has been counted and the target is not placed
C4_Witness == phase = "scanning" /\ isRescan /\ settleFrames = 19 /\ "hit" \in ev

\* C4 as stated: 45 valid hits are required, the 44th does not place and the 45th does.
C4_FortyFiveHits ==
  [][ phase = "scanning" /\ isRescan /\ "hit" \in ev' =>
        /\ settleFrames' < 45 => phase' = "scanning" /\ "place" \notin ev'
        /\ settleFrames' = 45 => phase' = "placed" /\ "place" \in ev' ]_vars

\* C5: XR8.stop() is called only when the cover is raised and the wait for its
\* fade-in has completed.
C5_StopAfterFadeIn == "XR8.stop" \in ev => cover = "faded"

\* C6: the cover is taken down only by the Scanning tick that places the target, and
\* in a rescan that tick's hit is the one that satisfies the settle threshold.
C6_CoverUntilSettledPlacement ==
  [][ cover # "none" /\ cover' = "none" =>
        /\ phase = "scanning" /\ phase' = "placed"
        /\ {"hit", "place", "hideCover"} \subseteq ev'
        /\ isRescan /\ settleFrames' >= SETTLE_FRAMES ]_vars

\* a rescan's placement has just taken the cover down
C6_Witness == "hideCover" \in ev /\ cover = "none" /\ phase = "placed" /\ settleFrames = SETTLE_FRAMES

\* ------------------------------------------------------------ claims: GestureHandler
\* C7: detach() leaves the instance without listeners and with both sessions cleared,
\* whatever session was on when it was called, and while the instance is detached no
\* step, the delivery of an event queued before the detach included, changes the
\* target's position, orientation or scale.
C7_DetachEndsManipulation ==
  /\ []("detach" \in ev =>
          /\ handlers[1].listeners = <<>> /\ ~handlers[1].active
          /\ ~handlers[1].sf.on /\ ~handlers[1].tf.on)
  /\ [][~handlers[1].active => target' = target]_vars

\* detach() was called in the middle of a pinch while a touchmove was queued
C7_Witness ==
  /\ {"detach", "midPinch"} \subseteq ev
  /\ queue # <<>> /\ Head(queue).type = "touchmove" /\ Len(Head(queue).touches) = 2

\* C8: attach() on an attached instance changes nothing, and after any sequence of
\* attach() and detach() calls the instance holds exactly the four listeners
\* touchstart, touchmove, touchend, touchcancel when attached and none when detached.
C8_AttachIdempotent ==
  \A i \in 1..MaxHandlers :
    /\ attach(attach(handlers[i])) = attach(handlers[i])
    /\ handlers[i].active => handlers[i].listeners = ListenerTypes
    /\ ~handlers[i].active => handlers[i].listeners = <<>>

\* attach() was called on an attached instance
C8_Witness == {"attach", "again"} \subseteq ev /\ handlers[1].listeners = ListenerTypes

C10_ScaleWritesGuarded ==
  /\ target.scale # NaN /\ SCALE_MIN <= target.scale /\ target.scale <= SCALE_MAX
  /\ "setScale" \in ev =>
       \E i \in 1..MaxHandlers :
         /\ handlers[i].tf.on
         /\ handlers[i].tf.prevSpread > MIN_SPREAD /\ handlers[i].tf.initSpread > MIN_SPREAD

\* a move was delivered to a session whose baseline spread is 0 and whose current
\* spread is 40 px, and wrote no scale
C10_Witness ==
  /\ {"touchmove", "handled"} \subseteq ev /\ "setScale" \notin ev
  /\ handlers[1].tf.on /\ handlers[1].tf.initSpread = 0 /\ handlers[1].tf.prevSpread = 400

\* ------------------------------------------------------------ the lifecycle with a floor in view
\* Every Scanning tick finds the ground, and the waits of a reset end: the rAF and
\* the timers of showCover, hideCover and restartXR8 fire, boards.init() resolves.
\* What the user does is left open; a finger goes down where something listens.
Tap ==
  IF touches = <<>> /\ (Listening \/ boards.tap) THEN {[id |-> 1, x |-> 0, y |-> 0]} ELSE {}

ScanHitTick ==
  /\ phase = "scanning"
  /\ \E hit \in Hits, cur \in {Cur} : Commit(scanHit(cur, hit))
  /\ UNCHANGED <<touches, queue>>

NextLive ==
  \/ LoadingTick \/ ScanHitTick \/ PlacedTick \/ PlacedEnterResume
  \/ CoverRaf \/ CoverFadeDone \/ CoverRemoved \/ XrDelayDone
  \/ ResetClick \/ BackClick \/ OverlayRemoved
  \/ Press(Tap) \/ Lift

SpecLive ==
  /\ Init /\ [][NextLive]_vars
  /\ WF_vars(ScanHitTick) /\ WF_vars(PlacedEnterResume)
  /\ WF_vars(CoverRaf) /\ WF_vars(CoverFadeDone)
  /\ WF_vars(CoverRemoved) /\ WF_vars(XrDelayDone)

\* ------------------------------------------------------------ the handler alone, any event
\* The handler's listeners are on window and take whatever touch event is dispatched
\* there: the touch list of an event need not continue the list of the event before
\* (events dispatched by a script, events another listener swallowed).  Finger 1 is
\* at 0, finger 2 at 20 px and finger 3 at 40 px; once the scale has changed only
\* events with no touch left arrive.
AnyPoints ==
  IF target.scale # INITIAL_SCALE THEN {}
  ELSE {[id |-> 1, x |-> 0, y |-> 0], [id |-> 2, x |-> 200, y |-> 0],
        [id |-> MaxFingers, x |-> 400, y |-> 0]}

AnyTouches ==
  {<<>>} \cup {<<a>> : a \in AnyPoints} \cup
  {s \in {<<a, b>> : a \in AnyPoints, b \in AnyPoints} : s[1].id # s[2].id} \cup
  {<<a, b, c>> : a \in {p \in AnyPoints : p.id = 1}, b \in {p \in AnyPoints : p.id = 2},
                 c \in {p \in AnyPoints : p.id = MaxFingers}}

AnyEvent ==
  \E n \in 1..Len(ListenerTypes), ts \in AnyTouches : Deliver(ListenerTypes[n], ts)

NextAny == CallAttach \/ CallDetach \/ AnyEvent

SpecAny == InitGesture /\ [][NextAny]_vars

\* ------------------------------------------------------------ the handler alone, a slow finger
\* One finger at 0, 0.2, 0.4 or 0.8 px across and 0 or 1 px down, so that moves of 0.2 px
\* (below the threshold) and of 0.4 px and more occur; the user lets go of the screen
\* for good once the target is more than NudgeX or NudgeZ from where it started.
NudgeX == 12

NudgeZ == 20

Nudge ==
  IF Abs(target.x) > NudgeX \/ Abs(target.z + 400) > NudgeZ THEN {}
  ELSE {[id |-> 1, x |-> px, y |-> py] : px \in {0, 2, 4, 8}, py \in {0, 10}}

NextNudge ==
  \/ CallAttach \/ CallDetach
  \/ Press(Nudge) \/ Drag(Nudge) \/ Lift

SpecNudge == InitGesture /\ [][NextNudge]_vars

\* ------------------------------------------------------------ claims: C11 to C20
\* C11: whenever a GestureHandler is attached the target's scale is a number within
\* [SCALE_MIN, SCALE_MAX], through placements, pinches, hotspot taps and resets.
C11_ScaleInRangeWhileAttached ==
  Attached # {} =>
    target.scale # NaN /\ SCALE_MIN <= target.scale /\ target.scale <= SCALE_MAX

\* after a reset the target was placed again and pinched up to the upper clamp
C11_Witness ==
  Attached # {} /\ settleFrames = SETTLE_FRAMES /\ target.scale = SCALE_MAX /\ "setScale" \in ev

\* C12: a move of the two touches of a two-touch session, with non-degenerate spreads,
\* writes the scale
\* clamp(baselineScale * currentSpread / baselineSpread, SCALE_MIN, SCALE_MAX), and the
\* baselines are the scale and the spread captured by the touch-start that began the
\* two-touch session: no later event of the session changes them.
C12_Step ==
  LET h  == handlers[1]
      h2 == handlers'[1]
      e  == Head(queue)
      tracked == HasTouch(e.touches, h.tf.idA) /\ HasTouch(e.touches, h.tf.idB)
      cur == spread(FindTouch(e.touches, h.tf.idA, 1), FindTouch(e.touches, h.tf.idB, 2))
  IN  /\ "setScale" \in ev' => queue # <<>> /\ e.type = "touchmove" /\ h.tf.on
      /\ ("setScale" \in ev' /\ tracked) =>
           /\ cur > MIN_SPREAD /\ h.tf.initSpread > MIN_SPREAD
           /\ target'.scale =
                Max(SCALE_MIN, Min(SCALE_MAX, (h.tf.baseScale * cur) \div h.tf.initSpread))
      /\ ({"handled", "touchmove"} \subseteq ev' /\ h.tf.on /\ Len(e.touches) >= 2 /\ tracked
             /\ cur > MIN_SPREAD /\ h.tf.initSpread > MIN_SPREAD) => "setScale" \in ev'
      /\ (h.tf.on /\ h2.tf.on) =>
           /\ h2.tf.baseScale = h.tf.baseScale /\ h2.tf.initSpread = h.tf.initSpread
           /\ h2.tf.idA = h.tf.idA /\ h2.tf.idB = h.tf.idB
      /\ (~h.tf.on /\ h2.tf.on) =>
           /\ queue # <<>> /\ e.type = "touchstart" /\ Len(e.touches) >= 2
           /\ h2.tf.baseScale = target.scale
           /\ h2.tf.initSpread = spread(e.touches[1], e.touches[2])

C12_ScaleFromBaseline == [][C12_Step]_vars

\* the spread doubled since the session began, and the
\* scale is twice the baseline scale
C12_Witness ==
  /\ "setScale" \in ev /\ handlers[1].tf.on
  /\ handlers[1].tf.initSpread = 200 /\ handlers[1].tf.prevSpread = 400
  /\ handlers[1].tf.baseScale = INITIAL_SCALE /\ target.scale = 2 * INITIAL_SCALE

\* C13: a single-touch pan move with screen delta (dx, dy) adds dx * HORIZONTAL_SENSITIVITY
\* along the camera's horizontal right vector and -dy * DEPTH_SENSITIVITY along its
\* horizontal forward vector to the target position, and changes nothing else of the pose.
C13_Step ==
  LET h  == handlers[1]
      e  == Head(queue)
      t  == e.touches[1]
      dx == t.x - h.sf.lastX
      dy == t.y - h.sf.lastY
  IN  "setPosition" \in ev' =>
        /\ queue # <<>> /\ e.type = "touchmove" /\ Len(e.touches) = 1
        /\ h.sf.on /\ t.id = h.sf.id
        /\ \E cam \in PanCams :
             /\ cam.found
             /\ target'.x = target.x + cam.rx * dx * HORIZONTAL_SENSITIVITY
                                      + cam.fx * (-dy) * DEPTH_SENSITIVITY
             /\ target'.z = target.z + cam.rz * dx * HORIZONTAL_SENSITIVITY
                                      + cam.fz * (-dy) * DEPTH_SENSITIVITY
        /\ target'.y = target.y /\ target'.scale = target.scale /\ target'.rot = target.rot

C13_PanAlongCamera == [][C13_Step]_vars

\* the finger went 40 px to the right and 20 px down: the target is 0.2 m further along
\* the right vector and 0.1 m back along the forward vector of the camera looking along -z
C13_Witness ==
  /\ "setPosition" \in ev /\ handlers[1].sf.on
  /\ handlers[1].sf.lastX = 400 /\ handlers[1].sf.lastY = 200
  /\ target.x = 400 /\ target.z = -200

\* C14: a two-touch manipulation never continues past its defining touches: a scale
\* update is applied only while both touches tracked by the two-touch session are on
\* the screen.
C14_Step ==
  "setScale" \in ev' =>
    /\ HasTouch(Head(queue).touches, handlers[1].tf.idA)
    /\ HasTouch(Head(queue).touches, handlers[1].tf.idB)

C14_NoScaleAfterLift == [][C14_Step]_vars

\* C15: when a touch-end leaves exactly one touch during a two-touch session, the
\* two-touch session is discarded and a fresh single-touch session starts, tracking the
\* remaining touch from its current position.
C15_Step ==
  LET e == Head(queue)
  IN  ({"handled", "touchend"} \subseteq ev' /\ Len(e.touches) = 1 /\ handlers[1].tf.on) =>
        /\ handlers'[1].tf = NoTf
        /\ handlers'[1].sf = [on |-> TRUE, id |-> e.touches[1].id,
                               lastX |-> e.touches[1].x, lastY |-> e.touches[1].y]

C15_FreshPanAfterPinch == [][C15_Step]_vars

\* the first finger lifted from a pinch: the pan session tracks the second finger, 40 px away
C15_Witness ==
  /\ {"handled", "touchend"} \subseteq ev /\ Len(touches) = 1
  /\ touches[1].id = 2 /\ touches[1].x = 400
  /\ ~handlers[1].tf.on
  /\ handlers[1].sf = [on |-> TRUE, id |-> 2, lastX |-> 400, lastY |-> 0]

\* C16: after a touch-end that leaves no touch, and after any touch-cancel however many
\* touches remain, both the single-touch and the two-touch session are absent.
C16_Step ==
  LET e == Head(queue)
  IN  (\/ {"handled", "touchend"} \subseteq ev' /\ Len(e.touches) = 0
       \/ {"handled", "touchcancel"} \subseteq ev') =>
        handlers'[1].sf = NoSf /\ handlers'[1].tf = NoTf

C16_IdleAfterLiftOrCancel == [][C16_Step]_vars

\* one of three touches was cancelled: two remain and no session is left
C16_Witness ==
  /\ {"handled", "touchcancel"} \subseteq ev /\ Len(touches) = 2
  /\ handlers[1].sf = NoSf /\ handlers[1].tf = NoTf

\* C17: whenever the phase is Placed and its enter handler has run, the target shows
\* its original materials and not the grey preview materials.
C17_OriginalMaterialsWhenPlaced ==
  (phase = "placed" /\ placed) => mat = "original"

\* C18: while the 360 view is active, from the hotspot tap that opens it until its close
\* callback runs, no GestureHandler is attached and no touch event changes the target's
\* position, orientation or scale.
C18_Step ==
  (viewing360 /\ viewing360' /\ "handled" \in ev') => target' = target

C18_NoGesturesWhileViewing == [](viewing360 => Attached = {}) /\ [][C18_Step]_vars

\* C19: a Loading tick on which the geometry-ready query answers false leaves the phase
\* Loading and the target's position, orientation and scale as they were, for any
\* number of such ticks.
C19_Step ==
  "notReady" \in ev' => phase = "loading" /\ phase' = "loading" /\ target' = target

C19_LoadingWaits == [][C19_Step]_vars

\* a tick that found the canvas but not the model
C19_Witness ==
  "notReady" \in ev /\ phase = "loading" /\ xr8Canvas /\ target = Parked

\* C20: a Scanning tick without a ground hit leaves the phase Scanning and takes no
\* transition, and all through Scanning the target is parked at the hidden scale.
C20_Step ==
  "noHit" \in ev' => phase = "scanning" /\ phase' = "scanning" /\ target' = target

C20_ScanningWaits == [](phase = "scanning" => target = Parked) /\ [][C20_Step]_vars

\* during a rescan, a tick without a hit after ticks with hits
C20_Witness ==
  /\ "noHit" \in ev /\ phase = "scanning" /\ isRescan /\ settleFrames > 1
  /\ target = Parked /\ target.scale = HIDDEN_SCALE

\* ------------------------------------------------------------ claims: C21 to C30
\* C21: when the horizontal offset between the viewer and the hit point is zero or below
\* the epsilon, the pose is the hit point unshifted, raised by Y_ABOVE_GROUND; the pose
\* is never NaN.
C21_Step ==
  \A hit \in PoseHits, d \in PoseOffsets :
    LET cam == [x |-> hit.x + d.x, z |-> hit.z + d.z]
    IN  (PoseLabel(hit, cam) \in ev' /\ d.x * d.x + d.z * d.z < OFFSET_EPS_SQ) =>
          /\ target'.x = hit.x /\ target'.z = hit.z
          /\ target'.y = hit.y + Y_ABOVE_GROUND

C21_UnshiftedBelowEpsilon ==
  [](target.x # NaN /\ target.z # NaN) /\ [][C21_Step]_vars

\* the camera stood 0.007 m from the hit point (0.15 m, 0, -0.2 m): the pose is above the hit
C21_Witness ==
  /\ PoseLabel([x |-> 300, y |-> 0, z |-> -400], [x |-> 310, z |-> -390]) \in ev
  /\ target.x = 300 /\ target.y = Y_ABOVE_GROUND /\ target.z = -400

\* C22: the pose computation is a pure function: a call with the hit point and viewer
\* position of the call before returns the same pose, and a call writes nothing but
\* the pose.
C22_Step ==
  /\ "again" \in ev' => target' = target
  /\ "pose" \in ev' =>
        UNCHANGED <<phase, placed, isRescan, coverVisible, settleFrames, pendingRescan,
                    viewing360, materialsApplied, absoluteScaleDisabled, gestures,
                    handlers, mat, matStore, cover, xr8Canvas, xrRunning, resets,
                    resetBtn, boards, vFading, touches, queue>>

CoverElements == (IF cover # "none" THEN 1 ELSE 0) + resets.gone

C23_OneCover == CoverElements <= 1

\* C24: the settle counter counts consecutive valid surface hits: in a rescan a tick
\* without a ground hit restarts the count, so that placement is finalized only after
\* SETTLE_FRAMES valid hits in a row.
C24_Step ==
  ("noHit" \in ev' /\ phase = "scanning" /\ isRescan) => settleFrames' = 0

C24_ConsecutiveHits == [][C24_Step]_vars

\* C25: on the first placement (Scanning entered from Loading, isRescan false) the
\* first tick with a valid ground hit applies the final pose with the fixed initial
\* scale and takes the transition to Placed, with no settle wait.
C25_Step ==
  ("hit" \in ev' /\ phase = "scanning" /\ ~isRescan) =>
    /\ settleFrames = 0 /\ "place" \in ev'
    /\ phase' = "placed"
    /\ target'.scale = INITIAL_SCALE
    /\ \E hit \in Hits :
         LET p == offsetTowardCamera(hit.x, hit.z, CamPos.x, CamPos.z, CAMERA_OFFSET)
         IN  /\ target'.x = p.x /\ target'.z = p.z
             /\ target'.y = hit.y + Y_ABOVE_GROUND

C25_FirstPlacementAtOnce == [][C25_Step]_vars

\* the first placement, made by the first tick with a hit
C25_Witness ==
  /\ "hit" \in ev /\ "place" \in ev /\ phase = "placed" /\ ~isRescan
  /\ settleFrames = 1 /\ target.scale = INITIAL_SCALE

\* C26: the phase changes only from Loading to Scanning (on a tick that found the
\* geometry ready), from Scanning to Placed (on a tick with a valid ground hit) and
\* from Placed to Scanning (in a step of startRescan: where one of its waits ends, or
\* the call itself when it has nothing to wait for); Loading is never re-entered and Placed
\* is never entered from Loading.
C26_Step ==
  phase' # phase =>
    \/ /\ phase = "loading" /\ phase' = "scanning"
       /\ "notReady" \notin ev' /\ "enterScanning" \in ev'
    \/ /\ phase = "scanning" /\ phase' = "placed"
       /\ "hit" \in ev' /\ "place" \in ev' /\ "enterPlaced" \in ev'
    \/ /\ phase = "placed" /\ phase' = "scanning"
       /\ "exitPlaced" \in ev' /\ "enterScanning" \in ev'
       /\ \/ InFlight([resets |-> resets']) < InFlight([resets |-> resets])
          \/ "startRescan" \in ev'

C26_PhaseOrder == [][C26_Step]_vars

\* Scanning re-entered from Placed at the end of a reset
C26_Witness ==
  /\ phase = "scanning" /\ isRescan
  /\ "doRescan.trigger" \in ev /\ "exitPlaced" \in ev /\ "enterScanning" \in ev

\* C27: each reset performs its steps in this order: the GestureHandler is detached
\* and the hotspot sprites are disposed, the target is parked and its materials are
\* restored, the cover is raised, the pipeline is stopped, the delay elapses, the
\* pipeline is run again on the captured canvas, and only then is the transition to
\* Scanning triggered; run() is never issued without a stop() whose delay is pending,
\* and the transition never precedes run().
C27_Step ==
  /\ "startRescan" \in ev' =>
       /\ gestures' = 0 /\ ~boards'.sprites /\ ~boards'.tap
       /\ target' = Parked /\ mat' = "original" /\ matStore' = <<>>
       /\ cover' # "none"
  /\ "XR8.stop" \in ev' => cover' = "faded"
  /\ "XR8.run" \in ev' => resets.xr > 0
  /\ ("exitPlaced" \in ev' /\ xr8Canvas) => "XR8.run" \in ev'

C27_ResetOrder == [][C27_Step]_vars

\* C28: closing the 360 view causes exactly one run of the reset sequence and one
\* transition to Scanning: the Placed tick that finds pendingRescan set clears it
\* before any wait and starts the only reset then in progress, and no tick starts a
\* reset without the flag.
C28_Step ==
  "startRescan" \in ev' =>
    \/ /\ pendingRescan /\ phase = "placed"
       /\ ~pendingRescan'
       /\ InFlight([resets |-> resets]) = 0
    \/ resetBtn /\ ~resetBtn'

C28_OneResetPerClose == [][C28_Step]_vars

\* C29: after a reset is requested in Placed, if the waits of the cover and of the
\* pipeline restart end and every Scanning tick has a valid ground hit, the machine
\* eventually is in Placed again with the cover hidden and one GestureHandler attached.
C29_Replaced ==
  ("startRescan" \in ev) ~>
    (phase = "placed" /\ cover = "none" /\ Cardinality(Attached) = 1)

\* the tick that ended a rescan: the twentieth hit placed the terrain, took the cover
\* down and attached a handler
C29_Witness ==
  /\ "hideCover" \in ev /\ "enterPlaced" \in ev /\ settleFrames = SETTLE_FRAMES
  /\ phase = "placed" /\ cover = "none" /\ Cardinality(Attached) = 1

\* C30: while a two-touch session is active, a touchstart that brings a third or later
\* finger is ignored: the handler keeps its two tracked identifiers, its baseline
\* spread and its baseline scale, starts no single-touch session, and the target stays
\* as it was.
C30_Step ==
  (/\ queue # <<>> /\ queue' = Tail(queue)
   /\ Head(queue).type = "touchstart" /\ Len(Head(queue).touches) >= 3) =>
    \A i \in 1..MaxHandlers :
      (Listens(handlers[i], "touchstart") /\ handlers[i].tf.on) =>
        /\ handlers'[i].tf.on
        /\ handlers'[i].tf.idA = handlers[i].tf.idA
        /\ handlers'[i].tf.idB = handlers[i].tf.idB
        /\ handlers'[i].tf.initSpread = handlers[i].tf.initSpread
        /\ handlers'[i].tf.baseScale = handlers[i].tf.baseScale
        /\ ~handlers'[i].sf.on
        /\ target' = target

C30_ThirdTouchIgnored == [][C30_Step]_vars

\* the third finger's touchstart was delivered to a handler that tracks fingers 1 and 2
C30_Witness ==
  /\ "touchstart" \in ev /\ "handled" \in ev /\ queue = <<>> /\ Len(touches) = 3
  /\ \E i \in 1..MaxHandlers :
       /\ handlers[i].tf.on /\ handlers[i].tf.idA = 1 /\ handlers[i].tf.idB = 2
       /\ handlers[i].tf.initSpread = 200 /\ ~handlers[i].sf.on

\* ------------------------------------------------------------ claims: C31 to C39
\* C31: a touchmove whose touch list lacks a tracked identifier is handled without an
\* error: in a two-touch session the first (for idA) or second (for idB) touch of the
\* list stands in for the missing one, and in a single-touch session a move without
\* the tracked touch changes neither the target nor the session.
TouchOf(ts, id, k) ==
  IF \E j \in 1..Len(ts) : ts[j].id = id
  THEN ts[CHOOSE j \in 1..Len(ts) : ts[j].id = id]
  ELSE ts[k]

C31_Step ==
  ("touchmove" \in ev' /\ "handled" \in ev') =>
    \A i \in 1..MaxHandlers :
      Listens(handlers[i], "touchmove") =>
        /\ (handlers[i].tf.on /\ Len(touches') >= 2) =>
             LET a   == TouchOf(touches', handlers[i].tf.idA, 1)
                 b   == TouchOf(touches', handlers[i].tf.idB, 2)
                 cur == Sqrt((a.x - b.x) * (a.x - b.x) + (a.y - b.y) * (a.y - b.y))
             IN  /\ handlers'[i].tf.prevSpread = cur
                 /\ handlers'[i].tf.idA = handlers[i].tf.idA
                 /\ handlers'[i].tf.idB = handlers[i].tf.idB
                 /\ "setScale" \in ev' =>
                      target'.scale =
                        Max(SCALE_MIN, Min(SCALE_MAX,
                          (handlers[i].tf.baseScale * cur) \div handlers[i].tf.initSpread))
        /\ (/\ ~(handlers[i].tf.on /\ Len(touches') >= 2)
            /\ handlers[i].sf.on /\ Len(touches') = 1
            /\ touches'[1].id # handlers[i].sf.id) =>
             target' = target /\ handlers'[i] = handlers[i]

C31_MissingTouchTolerated == [][C31_Step]_vars

\* the session tracks fingers 1 and 2; the move came with fingers 1 and 3, and finger 3,
\* second in the list, stood in for finger 2: the spread is 40 px and the scale doubled
C31_Witness ==
  /\ "touchmove" \in ev /\ "setScale" \in ev
  /\ handlers[1].tf.on /\ handlers[1].tf.idA = 1 /\ handlers[1].tf.idB = 2
  /\ handlers[1].tf.initSpread = 200 /\ handlers[1].tf.prevSpread = 400
  /\ Len(touches) = 2 /\ touches[1].id = 1 /\ touches[2].id = MaxFingers
  /\ target.scale = 2 * INITIAL_SCALE

\* C32: a single-touch move whose delta is below 0.3 px on the one axis and on the
\* other is ignored: the target's position stays as it was.
C32_Step ==
  ("touchmove" \in ev' /\ "handled" \in ev' /\ Len(touches') = 1) =>
    \A i \in 1..MaxHandlers :
      (/\ Listens(handlers[i], "touchmove") /\ handlers[i].sf.on
       /\ touches'[1].id = handlers[i].sf.id
       /\ Abs(touches'[1].x - handlers[i].sf.lastX) < PAN_THRESHOLD
       /\ Abs(touches'[1].y - handlers[i].sf.lastY) < PAN_THRESHOLD) =>
        /\ target'.x = target.x /\ target'.y = target.y /\ target'.z = target.z
        /\ "setPosition" \notin ev'

C32_SmallDeltaIgnored == [][C32_Step]_vars

\* the finger went from 0 to 0.2 px and the handler took the move: the session follows
\* the finger and the target is where it was placed
C32_Witness ==
  /\ "touchmove" \in ev /\ "handled" \in ev /\ "setPosition" \notin ev
  /\ Len(touches) = 1 /\ touches[1].x = 2 /\ touches[1].y = 0
  /\ handlers[1].sf.on /\ handlers[1].sf.lastX = 2 /\ handlers[1].sf.lastY = 0
  /\ target.x = 0 /\ target.z = -400

\* C33: each kind of move writes its own component only: a single-touch move changes
\* at most the target's x and z and leaves its height, orientation and scale, and a
\* two-touch move changes at most the scale and leaves position and orientation.
C33_Step ==
  LET h   == handlers[1]
      two == h.tf.on /\ Len(Head(queue).touches) >= 2
      one == ~two /\ h.sf.on /\ Len(Head(queue).touches) = 1
  IN  (/\ queue # <<>> /\ queue' = Tail(queue) /\ Head(queue).type = "touchmove"
       /\ Listens(h, "touchmove")) =>
        /\ two => /\ target'.x = target.x /\ target'.y = target.y /\ target'.z = target.z
                  /\ target'.rot = target.rot /\ "setPosition" \notin ev'
        /\ one => /\ target'.y = target.y /\ target'.rot = target.rot
                  /\ target'.scale = target.scale /\ "setScale" \notin ev'
        /\ ~two /\ ~one => target' = target

C33_OwnComponentOnly == [][C33_Step]_vars

\* a pan moved the target across; its height, orientation and scale are those of the
\* placement
C33_Witness ==
  /\ "setPosition" \in ev /\ handlers[1].sf.on /\ target.x # 0
  /\ target.y = Y_ABOVE_GROUND /\ target.rot = 0 /\ target.scale = INITIAL_SCALE

\* C34: the reset button is shown only while the phase is Placed, no reset is in
\* progress and the 360 view is closed; it is never shown in Loading or Scanning.
C34_ResetOnlyInPlaced ==
  resetBtn => /\ phase = "placed" /\ ~viewing360 /\ InFlight(Cur) = 0

\* C35: a reset requested in one visit to Placed takes no effect in a later visit:
\* when the cover wait of a reset ends after the model was placed again (the cover it
\* waited for was taken down by that placement), its completion neither stops the
\* pipeline nor takes the machine from Placed to Scanning.
C35_Step ==
  resets'.fadeOld < resets.fadeOld =>
    /\ "XR8.stop" \notin ev'
    /\ ~(phase = "placed" /\ phase' = "scanning")

C35_NoStaleReset == [][C35_Step]_vars

\* C36: in a two-touch session the scale is a function of the current spread and of
\* the baselines taken when the session began: a move that brings the spread back to
\* the baseline spread writes exactly the baseline scale (a baseline scale within
\* [SCALE_MIN, SCALE_MAX]), whatever the spreads in between; dropping to one finger
\* ends the session, and the session the next touch-start begins takes the scale of
\* that moment and the spread of that moment as its baselines.
C36_Step ==
  LET h  == handlers[1]
      h2 == handlers'[1]
      e  == Head(queue)
      cur == spread(FindTouch(e.touches, h.tf.idA, 1), FindTouch(e.touches, h.tf.idB, 2))
      dispatched == queue # <<>> /\ queue' = Tail(queue)
  IN  /\ (/\ dispatched /\ e.type = "touchmove" /\ Listens(h, "touchmove")
          /\ h.tf.on /\ Len(e.touches) >= 2 /\ cur = h.tf.initSpread
          /\ SCALE_MIN <= h.tf.baseScale /\ h.tf.baseScale <= SCALE_MAX) =>
            /\ h.tf.initSpread > MIN_SPREAD => target'.scale = h.tf.baseScale
            /\ ~(h.tf.initSpread > MIN_SPREAD) => target'.scale = target.scale
      /\ (/\ dispatched /\ e.type = "touchend" /\ Listens(h, "touchend")
          /\ Len(e.touches) = 1) => ~h2.tf.on
      /\ (~h.tf.on /\ h2.tf.on) =>
            /\ dispatched /\ e.type = "touchstart" /\ Len(e.touches) >= 2
            /\ h2.tf.baseScale = target.scale /\ target' = target
            /\ h2.tf.initSpread = spread(e.touches[1], e.touches[2])

C36_ScaleFromBaselines == [][C36_Step]_vars

\* a second session, begun with the scale the first one left: its latest move has the
\* baseline spread and wrote the baseline scale
C36_Witness ==
  LET h == handlers[1]
  IN  /\ h.tf.on /\ "setScale" \in ev /\ h.tf.baseScale # INITIAL_SCALE
      /\ h.tf.prevSpread = h.tf.initSpread /\ target.scale = h.tf.baseScale
      /\ "touchmove" \in ev /\ Len(touches) = 2

\* C37: a single-touch move that is ignored is consumed: every move of the tracked
\* finger leaves the session's last-known coordinates at the finger's place, so a
\* move that is less than PAN_THRESHOLD from the finger's previous place on both axes
\* never changes the target's position, however far the finger has gone in all.
C37_Step ==
  LET h  == handlers[1]
      h2 == handlers'[1]
      dragged == /\ Len(touches) = 1 /\ Len(touches') = 1 /\ touches' # touches
                 /\ Listens(h, "touchmove") /\ h.sf.on /\ h.sf.id = touches[1].id
  IN  dragged =>
        /\ h2.sf.on /\ h2.sf.lastX = touches'[1].x /\ h2.sf.lastY = touches'[1].y
        /\ (/\ Abs(touches'[1].x - touches[1].x) < PAN_THRESHOLD
            /\ Abs(touches'[1].y - touches[1].y) < PAN_THRESHOLD) =>
              /\ target' = target /\ "setPosition" \notin ev'

C37_SmallMovesConsumed == [][C37_Step]_vars

\* a move of 0.2 px brought the finger to x = 0.4 px: the session's last-known x
\* followed it and the target stayed where it was placed
C37_Witness ==
  /\ Len(touches) = 1 /\ touches[1].x = 4 /\ touches[1].y = 0
  /\ handlers[1].sf.on /\ handlers[1].sf.lastX = 4
  /\ target.x = 0 /\ target.z = -400
  /\ "touchmove" \in ev /\ "setPosition" \notin ev

\* C38: the grey preview material is never captured as an original: the store holds
\* original materials only, it holds them exactly while the mesh is grey (grey is
\* applied only when it is not applied already, materialsApplied telling which), and
\* a restore leaves the mesh with its original material and the store empty.
C38_GreyNeverCaptured ==
  /\ \A k \in 1..Len(matStore) : matStore[k] = "original"
  /\ mat = "grey" <=> matStore # <<>>
  /\ mat = "grey" <=> materialsApplied
  /\ mat # "grey" => mat = "original"

\* placed again after a reset: the mesh is grey and the store holds its original
C38_Witness ==
  /\ phase = "placed" /\ settleFrames = SETTLE_FRAMES /\ "place" \in ev
  /\ mat = "grey" /\ matStore = <<"original">> /\ materialsApplied

\* C39: a GestureHandler has at most one of the single-touch and the two-touch
\* session, has neither while detached, and a session exists only after a touch-down
\* was received since the touch count was last zero.  A session lasts from the
\* touch-start that began it until a touch-end leaving no finger, a cancel or detach():
\* a handler that has none has received no touch-down since then, so a session may
\* come into being only in the delivery of a touch-start.
C39_State ==
  LET h == handlers[1]
  IN  /\ ~(h.sf.on /\ h.tf.on)
      /\ ~h.active => ~h.sf.on /\ ~h.tf.on

C39_Step ==
  LET h  == handlers[1]
      h2 == handlers'[1]
  IN  (~h.sf.on /\ ~h.tf.on /\ (h2.sf.on \/ h2.tf.on)) => "touchstart" \in ev'

C39_SessionDiscipline == []C39_State /\ [][C39_Step]_vars

====
